---- MODULE Spec2Model ----
(***************************************************************************)
(* photo-cli: the batch upload pipeline of src/photo-cli.ts.               *)
(*                                                                         *)
(* One process of the CLI runs main(); choosing "1" runs uploadPhotos()    *)
(* and then exits the process (status 0 or 1).  The metadata store         *)
(* (Firestore collection "photos") and the asset store (Cloudinary folder) *)
(* outlive the process, so a later process sees what an earlier one wrote. *)
(*                                                                         *)
(* Strings are sequences of UTF-16 code units, so that sorting, padding,   *)
(* the IMG-(\d+) match and parseInt are computed, not assumed.             *)
(***************************************************************************)
EXTENDS Integers, Sequences, FiniteSets

\* ------------------------------------------------------------------ bounds
\* Page size of the asset listing.  The source asks for 100 per page
\* (photo-cli.ts:346); the model is checked with smaller pages so that the
\* assets of one batch fill less than, exactly, and more than one page.
MAX_RESULTS == 2
\* Window size.  The source sets 8 (photo-cli.ts:32); the model is checked
\* with smaller windows so that a batch of three files spans two windows.
CONCURRENCY == 2
\* Number of CLI processes run one after the other against the same stores.
MaxRuns == 2

\* ------------------------------------------------------------- code units
IMG == <<73, 77, 71, 45>>                   \* "IMG-"
SLASH == <<47>>                             \* path separator of path.join
DOTJPG == <<46, 106, 112, 103>>             \* ".jpg"
DOTTXT == <<46, 116, 120, 116>>             \* ".txt"

IsDigit(c) == c >= 48 /\ c <= 57

\* String.prototype comparison (code unit order); Array.prototype.sort()
\* without a comparator and Firestore's orderBy on a string field use it.
RECURSIVE LexLess(_, _)
LexLess(s, t) ==
    IF s = << >> THEN t # << >>
    ELSE IF t = << >> THEN FALSE
    ELSE IF Head(s) # Head(t) THEN Head(s) < Head(t)
    ELSE LexLess(Tail(s), Tail(t))

\* Decimal digits of n, as Number.prototype.toString() writes them.
RECURSIVE ToString(_)
ToString(n) ==
    IF n < 10 THEN <<48 + n>> ELSE ToString(n \div 10) \o <<48 + (n % 10)>>

\* String.prototype.padStart(4, '0'): a minimum width, never a truncation.
RECURSIVE PadStart4(_)
PadStart4(s) == IF Len(s) >= 4 THEN s ELSE PadStart4(<<48>> \o s)

pad(num) == PadStart4(ToString(num))

\* The template `IMG-${String(counter + index).padStart(4, '0')}`.
MakeId(n) == IMG \o PadStart4(ToString(n))

\* parseInt(ds, 10) of a string of digits.
RECURSIVE ParseInt(_)
ParseInt(ds) ==
    IF ds = << >> THEN 0
    ELSE 10 * ParseInt(SubSeq(ds, 1, Len(ds) - 1)) + (ds[Len(ds)] - 48)

\* The longest run of digits at the start of s (the greedy \d+).
RECURSIVE DigitRun(_)
DigitRun(s) ==
    IF s = << >> \/ ~IsDigit(Head(s)) THEN << >>
    ELSE <<Head(s)>> \o DigitRun(Tail(s))

StartsWith(s, p) == Len(s) >= Len(p) /\ SubSeq(s, 1, Len(p)) = p

\* lastTitle.match(/IMG-(\d+)/): group 1 of the leftmost match of the
\* unanchored pattern, << >> when nothing matches.
RECURSIVE MatchImg(_)
MatchImg(s) ==
    IF s = << >> THEN << >>
    ELSE IF StartsWith(s, IMG) /\ DigitRun(SubSeq(s, 5, Len(s))) # << >>
         THEN DigitRun(SubSeq(s, 5, Len(s)))
         ELSE MatchImg(Tail(s))

\* /\.(jpg|jpeg|png|webp)$/i
ToLower(c) == IF c >= 65 /\ c <= 90 THEN c + 32 ELSE c
ImageExts == { <<46, 106, 112, 103>>, <<46, 106, 112, 101, 103>>,
               <<46, 112, 110, 103>>, <<46, 119, 101, 98, 112>> }
EndsWithLower(s, e) ==
    /\ Len(s) >= Len(e)
    /\ \A j \in 1..Len(e) : ToLower(s[Len(s) - Len(e) + j]) = e[j]
isImage(file) == \E e \in ImageExts : EndsWithLower(file, e)

\* Array.prototype.filter
RECURSIVE FilterImages(_)
FilterImages(s) ==
    IF s = << >> THEN << >>
    ELSE IF isImage(Head(s)) THEN <<Head(s)>> \o FilterImages(Tail(s))
    ELSE FilterImages(Tail(s))

\* Mutant: the comparison never says "less", so the result follows the
\* order in which the file system listed the files.
InsertSortedAppend(x, s) == s \o <<x>>

\* Array.prototype.sort() on strings: insertion into an ascending sequence.
RECURSIVE InsertSorted(_, _)
InsertSorted(x, s) ==
    IF s = << >> THEN <<x>>
    ELSE IF LexLess(x, Head(s)) THEN <<x>> \o s
    ELSE <<Head(s)>> \o InsertSorted(x, Tail(s))

\* Mutant: allFiles is left in discovery order (the sort is dropped).
SortStringsUnsorted(s) == s

RECURSIVE SortStrings(_)
SortStrings(s) ==
    IF s = << >> THEN << >> ELSE InsertSorted(Head(s), SortStrings(Tail(s)))

\* ------------------------------------------------------------ file system
FA == <<97>>                                \* folder "a"
FB == <<98>>                                \* folder "b"
FC == <<99>>                                \* folder "c": not on the disk
ONE_JPG == <<49>> \o DOTJPG                 \* "1.jpg"
TWO_JPG == <<50>> \o DOTJPG                 \* "2.jpg"
NOTES_TXT == <<110>> \o DOTTXT              \* "n.txt"

join(folder, f) == folder \o SLASH \o f     \* path.join

PA1 == join(FA, ONE_JPG)
PA2 == join(FA, TWO_JPG)
PB1 == join(FB, ONE_JPG)
Paths == {PA1, PA2, PB1}

\* fs.existsSync(folder)
existsSync(folder) == folder \in {FA, FB}

\* fs.readdirSync(folder): the order of the listing is the file system's.
Listings(folder) ==
    IF folder = FA THEN { <<ONE_JPG, TWO_JPG, NOTES_TXT>>,
                          <<TWO_JPG, NOTES_TXT, ONE_JPG>> }
    ELSE IF folder = FB THEN { <<ONE_JPG>> }
    ELSE { << >> }

\* What the files hold: a content hash (SHA-1 of the bytes) per path.
Hashes == {"h0", "h1", "h2", "h3"}
Disks ==
    { [p \in Paths |-> IF p = PA1 THEN "h1" ELSE IF p = PA2 THEN "h2" ELSE "h3"],
      [p \in Paths |-> IF p = PA1 THEN "h1" ELSE IF p = PA2 THEN "h1" ELSE "h2"],
      [p \in Paths |-> IF p = PA1 THEN "h1" ELSE IF p = PA2 THEN "h2" ELSE "h1"] }

\* The folder list files the operator may name at the prompt.
FolderLists ==
    { << >>, <<FC>>, <<FA>>, <<FB>>, <<FA, FB>>, <<FB, FA>>, <<FC, FB>> }

\* --------------------------------------------------------- capture metadata
\* An optional value is << >> (undefined or null) or <<v>>.
None == << >>
Some(v) == <<v>>

\* exifr.parse(filePath, {pick}) when it resolves: a function of the bytes;
\* None when the file carries no EXIF block.  ExposureTime is held as its
\* denominator d (an exposure of 1/d s), 0 for a zero exposure.
ExifOf(h) ==
    IF h = "h1" THEN Some([Model |-> Some("X100"), FNumber |-> Some(2),
                           ExposureTime |-> Some(250), ISO |-> Some(200),
                           DateTimeOriginal |-> Some(20240101)])
    ELSE IF h = "h3" THEN Some([Model |-> None, FNumber |-> Some(0),
                                ExposureTime |-> Some(0), ISO |-> None,
                                DateTimeOriginal |-> None])
    ELSE None

\* `exif?.F ?? null`
Nullish(exif, f) == IF exif = None THEN None ELSE exif[1][f]
\* `exif?.F ? g(exif.F) : null`: 0 is falsy
Truthy(exif, f) ==
    IF Nullish(exif, f) = None \/ Nullish(exif, f) = Some(0)
    THEN None ELSE Nullish(exif, f)

\* The document processPhoto writes.  aperture <<n>> stands for "f/n" and
\* shutterSpeed <<d>> for "1/d" (Math.round(1 / (1/d)) = d).
PhotoDoc(id, fileHash, exif) ==
    [ title |-> id,
      imageUrl |-> id,
      camera |-> Nullish(exif, "Model"),
      aperture |-> Truthy(exif, "FNumber"),
      shutterSpeed |-> Truthy(exif, "ExposureTime"),
      iso |-> Nullish(exif, "ISO"),
      shotDate |-> Truthy(exif, "DateTimeOriginal"),
      hash |-> fileHash,
      featured |-> FALSE ]

\* A document that another writer left in the collection.
OtherDoc(t, h) ==
    [ title |-> t, imageUrl |-> t, camera |-> None, aperture |-> None,
      shutterSpeed |-> None, iso |-> None, shotDate |-> None,
      hash |-> h, featured |-> FALSE ]

\* The collection when the first process starts, as earlier batches can
\* have left it: empty, holding IMG-0007, or holding IMG-9999 (the last
\* title of the padded width).
InitStores ==
    { [t \in {} |-> OtherDoc(t, "h0")],
      [t \in {MakeId(7)} |-> OtherDoc(t, "h0")],
      [t \in {MakeId(9999)} |-> OtherDoc(t, "h0")] }

\* A collection in which another writer left a document whose title is no
\* IMG- title and sorts after every IMG- title.
LEGACY == <<111, 108, 100>>                 \* "old"
ForeignStores == { [t \in {LEGACY} |-> OtherDoc(t, "h0")] }

\* ------------------------------------------------------------------- state
VARIABLES
    disk,         \* path -> content hash
    store,        \* Firestore collection: document id -> document
    assets,       \* Cloudinary folder: the public ids it holds
    run,          \* which process this is (1..MaxRuns)
    pc,           \* where main/uploadPhotos stands
    exitStatus,   \* process.exit status, -1 while the process runs
    err,          \* what uploadPhotos threw: <<kind, ids>>, << >> for nothing
    allFiles,     \* uploadPhotos: sorted paths
    counter,      \* uploadPhotos: seed from getNextImageNumber
    completed,    \* uploadPhotos: units whose processPhoto returned
    failed,       \* uploadPhotos: ids whose processPhoto threw
    pending,      \* uploadPhotos: [filePath, hash] that survived dedup
    uploadQueue,  \* uploadPhotos: pending with ids
    k,            \* index of the hashing loop (1-based)
    hash,         \* hash of allFiles[k] once hashFile resolved
    i,            \* index of the window loop (0-based, as in the source)
    unit,         \* per uploadQueue entry: position and outcome of its unit
    lastRender,   \* <<done, total>> of the last renderProgress, << >> before
    newlines,     \* trailing newlines renderProgress wrote
    storeAtStart, \* history: the collection when uploadPhotos began
    origin,       \* history: id -> <<run, path, unit>> of documents written here
    confirmations,\* resetDatabase: the answers read at its prompts
    nextCursor,   \* resetCloudinary: nextCursor
    result        \* resetCloudinary: result of the last api.resources call

resetVars == << confirmations, nextCursor, result >>

vars == << disk, store, assets, run, pc, exitStatus, err, allFiles, counter,
           completed, failed, pending, uploadQueue, k, hash, i, unit,
           lastRender, newlines, storeAtStart, origin, resetVars >>

locals == << allFiles, counter, completed, failed, pending, uploadQueue, k,
             hash, i, unit, lastRender, newlines >>

NoUnits == << >>
NoResult == [resources |-> {}, next_cursor |-> None]

InitWith(stores) ==
    /\ disk \in Disks
    /\ store \in stores
    /\ assets = {}
    /\ run = 1
    /\ pc = "menu"
    /\ exitStatus = -1
    /\ err = << >>
    /\ allFiles = << >>
    /\ counter = 0
    /\ completed = 0
    /\ failed = << >>
    /\ pending = << >>
    /\ uploadQueue = << >>
    /\ k = 1
    /\ hash = ""
    /\ i = 0
    /\ unit = NoUnits
    /\ lastRender = << >>
    /\ newlines = 0
    /\ storeAtStart = store
    /\ origin = [t \in {} |-> << >>]
    /\ confirmations = << >>
    /\ nextCursor = None
    /\ result = NoResult

Init == InitWith(InitStores)
InitForeign == InitWith(InitStores \cup ForeignStores)

\* ------------------------------------------------------- store operations
\* Mutant: the query also filters on featured, so it finds no upload.
hashExistsFeaturedOnly(h) ==
    \E d \in DOMAIN store : store[d].hash = h /\ store[d].featured

\* db.collection('photos').where('hash', '==', hash).limit(1).get(); !empty
hashExists(h) == \E d \in DOMAIN store : store[d].hash = h

\* Mutant: the suffix of the last title is returned without the + 1.
getNextImageNumberNoIncrement ==
    IF DOMAIN store = {} THEN 0
    ELSE LET titles == { store[d].title : d \in DOMAIN store }
             lastTitle == CHOOSE t \in titles :
                              \A u \in titles : u = t \/ LexLess(u, t)
             match == MatchImg(lastTitle)
         IN  IF match # << >> THEN ParseInt(match) ELSE 0

\* orderBy('title', 'desc').limit(1), then the IMG-(\d+) match on its title.
getNextImageNumber ==
    IF DOMAIN store = {} THEN 0
    ELSE LET titles == { store[d].title : d \in DOMAIN store }
             lastTitle == CHOOSE t \in titles :
                              \A u \in titles : u = t \/ LexLess(u, t)
             match == MatchImg(lastTitle)
         IN  IF match # << >> THEN ParseInt(match) + 1 ELSE 0

\* doc(id).set(data): creates the document or replaces it.
DocSet(id, data) ==
    [d \in DOMAIN store \cup {id} |-> IF d = id THEN data ELSE store[d]]

\* ------------------------------------------------------------- discovery
\* Lines 108-122: the listed folders in order, missing folders skipped,
\* the image files of each in the order readdirSync gives (ls[folder]).
RECURSIVE JoinAll(_, _)
JoinAll(folder, names) ==
    IF names = << >> THEN << >>
    ELSE <<join(folder, Head(names))>> \o JoinAll(folder, Tail(names))

RECURSIVE Discover(_, _)
Discover(folders, ls) ==
    IF folders = << >> THEN << >>
    ELSE IF ~existsSync(Head(folders)) THEN Discover(Tail(folders), ls)
    ELSE JoinAll(Head(folders), FilterImages(ls[Head(folders)]))
             \o Discover(Tail(folders), ls)

ListingChoices ==
    { [f \in {FA, FB, FC} |-> IF f = FA THEN la ELSE IF f = FB THEN lb ELSE lc] :
          la \in Listings(FA), lb \in Listings(FB), lc \in Listings(FC) }

\* --------------------------------------------------------------- progress
\* renderProgress(done, total): what it writes, and the trailing newline.
Rendering(done, total) ==
    [ done |-> done, total |-> total,
      percent |-> (done * 100) \div total,
      filled |-> (done * 30) \div total ]

renderProgress(done, total) ==
    /\ lastRender' = <<Rendering(done, total)>>
    /\ newlines' = IF done = total THEN newlines + 1 ELSE newlines

\* ------------------------------------------------------------------- main
\* process.exit(status) from main's then/catch of uploadPhotos().
Exit(status, thrown) ==
    /\ pc' = "exited"
    /\ exitStatus' = status
    /\ err' = thrown

\* uploadPhotos up to its first await (lines 91-129).
UploadStart(listFileExists, folders, ls) ==
    /\ pc = "menu"
    /\ storeAtStart' = store
    /\ UNCHANGED << disk, store, assets, run, origin, resetVars >>
    /\ UNCHANGED << counter, completed, failed, pending, uploadQueue, k, hash,
                    i, unit, lastRender, newlines >>
    /\ IF ~listFileExists
       THEN Exit(1, <<"nolist", << >> >>) /\ UNCHANGED allFiles
       ELSE IF folders = << >>
       THEN Exit(0, << >>) /\ UNCHANGED allFiles
       ELSE /\ allFiles' = SortStrings(Discover(folders, ls))
            /\ IF allFiles' = << >>
               THEN Exit(0, << >>)
               ELSE pc' = "seed" /\ UNCHANGED << exitStatus, err >>

\* let counter = await getNextImageNumber() (line 131)
Seed ==
    /\ pc = "seed"
    /\ counter' = getNextImageNumber
    /\ k' = 1
    /\ pc' = "hash"
    /\ UNCHANGED << disk, store, assets, run, exitStatus, err, allFiles,
                    completed, failed, pending, uploadQueue, hash, i, unit,
                    lastRender, newlines, storeAtStart, origin, resetVars >>

\* const hash = await hashFile(filePath) (line 138): the stream ends, or it
\* errors and the rejection leaves uploadPhotos.
HashFile(readable) ==
    /\ pc = "hash"
    /\ k <= Len(allFiles)
    /\ UNCHANGED << disk, store, assets, run, allFiles, counter, completed,
                    failed, pending, uploadQueue, k, i, unit, lastRender,
                    newlines, storeAtStart, origin, resetVars >>
    /\ IF readable
       THEN /\ hash' = disk[allFiles[k]]
            /\ pc' = "exists"
            /\ UNCHANGED << exitStatus, err >>
       ELSE /\ Exit(1, <<"io", << >> >>)
            /\ UNCHANGED hash

\* if (await hashExists(hash)) continue; pending.push(...) (lines 140-145)
Dedup ==
    /\ pc = "exists"
    /\ pending' = IF hashExists(hash) THEN pending
                  ELSE Append(pending, [filePath |-> allFiles[k], hash |-> hash])
    /\ k' = k + 1
    /\ pc' = IF k + 1 <= Len(allFiles) THEN "hash" ELSE "assign"
    /\ UNCHANGED << disk, store, assets, run, exitStatus, err, allFiles,
                    counter, completed, failed, uploadQueue, hash, i, unit,
                    lastRender, newlines, storeAtStart, origin, resetVars >>

\* Lines 148-156: nothing new returns; otherwise ids counter, counter+1, ...
Assign ==
    /\ pc = "assign"
    /\ UNCHANGED << disk, store, assets, run, allFiles, counter, completed,
                    failed, pending, k, hash, lastRender, newlines,
                    storeAtStart, origin, resetVars >>
    /\ IF Len(pending) = 0
       THEN /\ Exit(0, << >>)
            /\ UNCHANGED << uploadQueue, i, unit >>
       ELSE /\ uploadQueue' =
                  [index \in 1..Len(pending) |->
                      [ filePath |-> pending[index].filePath,
                        hash |-> pending[index].hash,
                        id |-> MakeId(counter + (index - 1)) ]]
            /\ unit' = [index \in 1..Len(pending) |->
                           [pc |-> "idle", outcome |-> "none", exif |-> None,
                            uploaded |-> FALSE]]
            /\ i' = 0
            /\ pc' = "loop"
            /\ UNCHANGED << exitStatus, err >>

\* The units of uploadQueue.slice(i, i + CONCURRENCY), as 1-based indexes.
Window(from) == { u \in 1..Len(uploadQueue) : u > from /\ u <= from + CONCURRENCY }

\* Lines 161-165: the loop test, the slice, and batch.map starting every unit
\* of the window (each runs up to its first await, in processPhoto).
StartWindow ==
    /\ pc = "loop"
    /\ i < Len(uploadQueue)
    /\ unit' = [u \in 1..Len(unit) |->
                   IF u \in Window(i) THEN [unit[u] EXCEPT !.pc = "check"]
                   ELSE unit[u]]
    /\ pc' = "await"
    /\ UNCHANGED << disk, store, assets, run, exitStatus, err, allFiles,
                    counter, completed, failed, pending, uploadQueue, k, hash,
                    i, lastRender, newlines, storeAtStart, origin, resetVars >>

\* Mutant: the window is left as soon as one of its units has ended
\* (Promise.race in place of Promise.all).
WindowJoinOnFirst ==
    /\ pc = "await"
    /\ \E u \in Window(i) : unit[u].pc = "done"
    /\ i' = i + CONCURRENCY
    /\ pc' = "loop"
    /\ UNCHANGED << disk, store, assets, run, exitStatus, err, allFiles,
                    counter, completed, failed, pending, uploadQueue, k, hash,
                    unit, lastRender, newlines, storeAtStart, origin, resetVars >>

\* await Promise.all(...) resolves once every unit of the window has ended;
\* then i += CONCURRENCY.
WindowJoin ==
    /\ pc = "await"
    /\ \A u \in Window(i) : unit[u].pc = "done"
    /\ i' = i + CONCURRENCY
    /\ pc' = "loop"
    /\ UNCHANGED << disk, store, assets, run, exitStatus, err, allFiles,
                    counter, completed, failed, pending, uploadQueue, k, hash,
                    unit, lastRender, newlines, storeAtStart, origin, resetVars >>

\* Mutant: the error is thrown only for more than one failure.
FinishOffByOne ==
    /\ pc = "loop"
    /\ i >= Len(uploadQueue)
    /\ IF Len(failed) > 1
       THEN Exit(1, <<"failures", failed>>)
       ELSE Exit(0, << >>)
    /\ UNCHANGED << disk, store, assets, run, locals, storeAtStart, origin, resetVars >>

\* Lines 184-191, and main's then/catch.
Finish ==
    /\ pc = "loop"
    /\ i >= Len(uploadQueue)
    /\ IF Len(failed) > 0
       THEN Exit(1, <<"failures", failed>>)
       ELSE Exit(0, << >>)
    /\ UNCHANGED << disk, store, assets, run, locals, storeAtStart, origin, resetVars >>

\* ------------------------------------------------------------- one unit
\* try { await processPhoto(...); completed++ } ...; renderProgress(...)
Succeed(u, how) ==
    /\ unit' = [unit EXCEPT ![u].pc = "done", ![u].outcome = how]
    /\ completed' = completed + 1
    /\ failed' = failed
    /\ renderProgress(completed' + Len(failed'), Len(allFiles))

\* Mutant: a unit that fails is recorded and counted as completed as well.
FailCountedTwice(u, how) ==
    /\ unit' = [unit EXCEPT ![u].pc = "done", ![u].outcome = how]
    /\ failed' = Append(failed, uploadQueue[u].id)
    /\ completed' = completed + 1
    /\ renderProgress(completed' + Len(failed'), Len(allFiles))

\* Mutant: the catch block counts the unit as completed and records nothing.
FailSwallowed(u, how) ==
    /\ unit' = [unit EXCEPT ![u].pc = "done", ![u].outcome = how]
    /\ failed' = failed
    /\ completed' = completed + 1
    /\ renderProgress(completed' + Len(failed'), Len(allFiles))

\* ... catch { failed.push(id) }; renderProgress(...)
Fail(u, how) ==
    /\ unit' = [unit EXCEPT ![u].pc = "done", ![u].outcome = how]
    /\ failed' = Append(failed, uploadQueue[u].id)
    /\ completed' = completed
    /\ renderProgress(completed' + Len(failed'), Len(allFiles))

\* Mutant: processPhoto without its duplicate check.
UnitCheckNoGuard(u) ==
    /\ pc = "await"
    /\ unit[u].pc = "check"
    /\ unit' = [unit EXCEPT ![u].pc = "exif"]
    /\ UNCHANGED << completed, failed, lastRender, newlines >>
    /\ UNCHANGED << disk, store, assets, run, pc, exitStatus, err, allFiles,
                    counter, pending, uploadQueue, k, hash, i, storeAtStart,
                    origin, resetVars >>

\* processPhoto: if (await hashExists(fileHash)) return (lines 200-204)
UnitCheck(u) ==
    /\ pc = "await"
    /\ unit[u].pc = "check"
    /\ IF hashExists(uploadQueue[u].hash)
       THEN Succeed(u, "skipped")
       ELSE /\ unit' = [unit EXCEPT ![u].pc = "exif"]
            /\ UNCHANGED << completed, failed, lastRender, newlines >>
    /\ UNCHANGED << disk, store, assets, run, pc, exitStatus, err, allFiles,
                    counter, pending, uploadQueue, k, hash, i, storeAtStart,
                    origin, resetVars >>

\* const exif = await exifr.parse(...) (lines 206-214): resolves, or rejects
\* (a file exifr cannot read or parse) and the rejection leaves processPhoto.
UnitExif(u, parsed) ==
    /\ pc = "await"
    /\ unit[u].pc = "exif"
    /\ IF parsed
       THEN /\ unit' = [unit EXCEPT ![u].pc = "upload",
                                    ![u].exif = ExifOf(uploadQueue[u].hash)]
            /\ UNCHANGED << completed, failed, lastRender, newlines >>
       ELSE Fail(u, "exifFailed")
    /\ UNCHANGED << disk, store, assets, run, pc, exitStatus, err, allFiles,
                    counter, pending, uploadQueue, k, hash, i, storeAtStart,
                    origin, resetVars >>

\* Mutant: a rejected upload is swallowed and the unit goes on to persist.
UnitUploadSwallowed(u, uploaded) ==
    /\ pc = "await"
    /\ unit[u].pc = "upload"
    /\ IF uploaded
       THEN /\ assets' = assets \cup {uploadQueue[u].id}
            /\ unit' = [unit EXCEPT ![u].pc = "persist", ![u].uploaded = TRUE]
       ELSE /\ unit' = [unit EXCEPT ![u].pc = "persist"]
            /\ UNCHANGED assets
    /\ UNCHANGED << completed, failed, lastRender, newlines >>
    /\ UNCHANGED << disk, store, run, pc, exitStatus, err, allFiles, counter,
                    pending, uploadQueue, k, hash, i, storeAtStart, origin,
                    resetVars >>

\* const upload = await cloudinary.uploader.upload(...) (lines 216-238)
UnitUpload(u, uploaded) ==
    /\ pc = "await"
    /\ unit[u].pc = "upload"
    /\ IF uploaded
       THEN /\ assets' = assets \cup {uploadQueue[u].id}
            /\ unit' = [unit EXCEPT ![u].pc = "persist", ![u].uploaded = TRUE]
            /\ UNCHANGED << completed, failed, lastRender, newlines >>
       ELSE /\ Fail(u, "uploadFailed")
            /\ UNCHANGED assets
    /\ UNCHANGED << disk, store, run, pc, exitStatus, err, allFiles, counter,
                    pending, uploadQueue, k, hash, i, storeAtStart, origin,
                    resetVars >>

\* await adminDb.collection(COLLECTION).doc(id).set({...}) (lines 240-258)
UnitPersist(u, written) ==
    /\ pc = "await"
    /\ unit[u].pc = "persist"
    /\ IF written
       THEN /\ store' = DocSet(uploadQueue[u].id,
                               PhotoDoc(uploadQueue[u].id, uploadQueue[u].hash,
                                        unit[u].exif))
            /\ origin' = [d \in DOMAIN origin \cup {uploadQueue[u].id} |->
                             IF d = uploadQueue[u].id
                             THEN <<run, uploadQueue[u].filePath, u>>
                             ELSE origin[d]]
            /\ Succeed(u, "written")
       ELSE /\ Fail(u, "persistFailed")
            /\ UNCHANGED << store, origin >>
    /\ UNCHANGED << disk, assets, run, pc, exitStatus, err, allFiles, counter,
                    pending, uploadQueue, k, hash, i, storeAtStart, resetVars >>

\* ------------------------------------------------------------ the process
\* choice === '5'
MenuExit ==
    /\ pc = "menu"
    /\ Exit(0, << >>)
    /\ UNCHANGED << disk, store, assets, run, locals, storeAtStart, origin, resetVars >>

\* The operator starts the CLI again: a fresh process, the same stores.
Restart ==
    /\ pc = "exited"
    /\ run < MaxRuns
    /\ run' = run + 1
    /\ pc' = "menu"
    /\ exitStatus' = -1
    /\ err' = << >>
    /\ allFiles' = << >>
    /\ counter' = 0
    /\ completed' = 0
    /\ failed' = << >>
    /\ pending' = << >>
    /\ uploadQueue' = << >>
    /\ k' = 1
    /\ hash' = ""
    /\ i' = 0
    /\ unit' = NoUnits
    /\ lastRender' = << >>
    /\ newlines' = 0
    /\ storeAtStart' = store
    /\ result' = NoResult
    /\ UNCHANGED << disk, store, assets, origin, confirmations,
                    nextCursor >>

\* ---------------------------------------------------------- featured flags
\* The numbers the operator may type at the prompt of setFeatured, after
\* split(','), trim, filter(Boolean) and Number().
FeatureInputs == { <<0>>, <<7, 5>>, <<10000>> }

\* The loop of setFeatured (lines 272-283): a missing document is reported
\* and skipped, an existing one gets featured: true.
RECURSIVE FeatureAll(_, _)
FeatureAll(s, numbers) ==
    IF numbers = << >> THEN s
    ELSE LET id == IMG \o pad(Head(numbers))
         IN  FeatureAll(IF id \in DOMAIN s
                        THEN [s EXCEPT ![id].featured = TRUE]
                        ELSE s,
                        Tail(numbers))

\* choice === '2'
SetFeatured(numbers) ==
    /\ pc = "menu"
    /\ store' = FeatureAll(store, numbers)
    /\ UNCHANGED << disk, assets, run, pc, exitStatus, err, locals,
                    storeAtStart, origin, resetVars >>

\* choice === '3': every document with featured == true gets featured: false.
ClearFeatured ==
    /\ pc = "menu"
    /\ store' = [d \in DOMAIN store |->
                    IF store[d].featured THEN [store[d] EXCEPT !.featured = FALSE]
                    ELSE store[d]]
    /\ UNCHANGED << disk, assets, run, pc, exitStatus, err, locals,
                    storeAtStart, origin, resetVars >>

\* ------------------------------------------------------------- full reset
\* main().catch(console.error): a rejection that leaves main ends the
\* process once it is logged.
Crash(what) == Exit(0, <<what, << >> >>)

\* choice === '4': resetDatabase up to its first await (lines 301-307).
ResetDatabase(first) ==
    /\ pc = "menu"
    /\ IF first # "RESET"
       THEN UNCHANGED << pc, confirmations >>
       ELSE pc' = "resetCommit" /\ confirmations' = <<first>>
    /\ UNCHANGED << disk, store, assets, run, exitStatus, err, locals,
                    storeAtStart, origin, nextCursor, result >>

\* snapshot = await collection.get(); batch.delete each; await batch.commit()
\* (lines 307-311); then resetCloudinary starts with no cursor (line 340).
ResetCommit(committed) ==
    /\ pc = "resetCommit"
    /\ IF committed
       THEN /\ store' = [d \in {} |-> OtherDoc(d, "h0")]
            /\ origin' = [d \in {} |-> << >>]
            /\ nextCursor' = None
            /\ pc' = "cloudList"
            /\ UNCHANGED << exitStatus, err, confirmations >>
       ELSE /\ Crash("reset")
            /\ confirmations' = << >>
            /\ UNCHANGED << store, origin, nextCursor >>
    /\ UNCHANGED << disk, assets, run, locals, storeAtStart, result >>

\* The assets after the cursor, and the page api.resources returns of them.
AfterCursor(cursor) ==
    { a \in assets : cursor = None \/ LexLess(cursor[1], a) }
PageOf(cursor) ==
    { a \in AfterCursor(cursor) :
          Cardinality({ b \in AfterCursor(cursor) : LexLess(b, a) }) < MAX_RESULTS }
LastOf(page) == CHOOSE a \in page : \A b \in page : b = a \/ LexLess(b, a)

\* result = await cloudinary.api.resources({..., max_results, next_cursor})
\* and the test of line 350.  A next_cursor comes with a page that leaves
\* assets behind; after a full last page the service may give one or not.
ResetCloudList(listed, more) ==
    /\ pc = "cloudList"
    /\ IF ~listed
       THEN /\ Crash("reset")
            /\ confirmations' = << >>
            /\ UNCHANGED << nextCursor, result >>
       ELSE LET page == PageOf(nextCursor)
                rest == AfterCursor(nextCursor) \ page
                cursor == IF rest # {} \/ (more /\ Cardinality(page) = MAX_RESULTS)
                          THEN Some(LastOf(page)) ELSE None
            IN  /\ result' = [resources |-> page, next_cursor |-> cursor]
                /\ IF page = {}
                   THEN /\ pc' = "menu"
                        /\ confirmations' = << >>
                        /\ nextCursor' = None
                   ELSE /\ pc' = "cloudDelete"
                        /\ UNCHANGED << confirmations, nextCursor >>
                /\ UNCHANGED << exitStatus, err >>
    /\ UNCHANGED << disk, store, assets, run, locals, storeAtStart, origin >>

\* Mutant: the loop ends after the first page whatever the cursor says.
ResetCloudDeleteOnce(deleted) ==
    /\ pc = "cloudDelete"
    /\ IF ~deleted
       THEN /\ Crash("reset")
            /\ confirmations' = << >>
            /\ UNCHANGED << assets, nextCursor >>
       ELSE /\ assets' = assets \ result.resources
            /\ nextCursor' = None
            /\ pc' = "menu"
            /\ confirmations' = << >>
            /\ UNCHANGED << exitStatus, err >>
    /\ UNCHANGED << disk, store, run, locals, storeAtStart, origin,
                    result >>

\* await cloudinary.api.delete_resources(publicIds); nextCursor =
\* result.next_cursor; while (nextCursor) (lines 352-359).
ResetCloudDelete(deleted) ==
    /\ pc = "cloudDelete"
    /\ IF ~deleted
       THEN /\ Crash("reset")
            /\ confirmations' = << >>
            /\ UNCHANGED << assets, nextCursor >>
       ELSE /\ assets' = assets \ result.resources
            /\ IF result.next_cursor # None
               THEN /\ nextCursor' = result.next_cursor
                    /\ pc' = "cloudList"
                    /\ UNCHANGED confirmations
               ELSE /\ nextCursor' = None
                    /\ pc' = "menu"
                    /\ confirmations' = << >>
            /\ UNCHANGED << exitStatus, err >>
    /\ UNCHANGED << disk, store, run, locals, storeAtStart, origin,
                    result >>

Units == 1..Len(unit)

Next ==
    \/ \E listFileExists \in BOOLEAN, folders \in FolderLists,
          ls \in ListingChoices : UploadStart(listFileExists, folders, ls)
    \/ Seed
    \/ \E readable \in BOOLEAN : HashFile(readable)
    \/ Dedup
    \/ Assign
    \/ StartWindow
    \/ WindowJoin
    \/ Finish
    \/ \E u \in Units : UnitCheck(u)
    \/ \E u \in Units, parsed \in BOOLEAN : UnitExif(u, parsed)
    \/ \E u \in Units, uploaded \in BOOLEAN : UnitUpload(u, uploaded)
    \/ \E u \in Units, written \in BOOLEAN : UnitPersist(u, written)
    \/ \E numbers \in FeatureInputs : SetFeatured(numbers)
    \/ ClearFeatured
    \/ \E first \in {"RESET", "reset"} : ResetDatabase(first)
    \/ \E committed \in BOOLEAN : ResetCommit(committed)
    \/ \E listed \in BOOLEAN, more \in BOOLEAN : ResetCloudList(listed, more)
    \/ \E deleted \in BOOLEAN : ResetCloudDelete(deleted)
    \/ MenuExit
    \/ Restart

Spec == Init /\ [][Next]_vars

\* The same program started against a collection another writer has touched.
SpecForeign == InitForeign /\ [][Next]_vars

\* Every awaited promise settles: the steps that follow an await of the
\* window loop or of the reset are taken once they stay possible.  The
\* operator at the menu prompt is under no such obligation.
BatchStep ==
    \/ StartWindow
    \/ WindowJoin
    \/ Finish
    \/ \E u \in Units : UnitCheck(u)
    \/ \E u \in Units, parsed \in BOOLEAN : UnitExif(u, parsed)
    \/ \E u \in Units, uploaded \in BOOLEAN : UnitUpload(u, uploaded)
    \/ \E u \in Units, written \in BOOLEAN : UnitPersist(u, written)
ResetStep ==
    \/ \E committed \in BOOLEAN : ResetCommit(committed)
    \/ \E listed \in BOOLEAN, more \in BOOLEAN : ResetCloudList(listed, more)
    \/ \E deleted \in BOOLEAN : ResetCloudDelete(deleted)
FairSpec == Spec /\ WF_vars(BatchStep \/ ResetStep)

\* ================================================================ claims
\* Vocabulary of the claims (read off the state, not used by the actions).
Range(s) == { s[j] : j \in 1..Len(s) }
DocsWithHash(s, h) == { d \in DOMAIN s : s[d].hash = h }
QueuePaths == { uploadQueue[u].filePath : u \in 1..Len(uploadQueue) }
PendingPaths == { pending[u].filePath : u \in 1..Len(pending) }
Deduped(j) == pc \notin {"menu", "seed"} /\ j < k
BatchEnded == pc = "exited" /\ uploadQueue # << >>
WindowOf(u) == (u - 1) \div CONCURRENCY
FailOutcomes == {"exifFailed", "uploadFailed", "persistFailed"}
FailedUnits == { u \in 1..Len(unit) : unit[u].outcome \in FailOutcomes }
InFlight == { u \in 1..Len(unit) : unit[u].pc \notin {"idle", "done"} }
\* When this batch began the store held the content once, in a document an
\* earlier batch of this CLI had written.
IngestedOnceBefore(h) ==
    /\ Cardinality(DocsWithHash(storeAtStart, h)) = 1
    /\ \A d \in DocsWithHash(storeAtStart, h) : d \in DOMAIN origin

\* C1: a file whose content an earlier run ingested is skipped by the next
\* run (it is not queued, so no upload is issued and no record is written for
\* it, and it cannot fail), and the store holds exactly one record with that
\* content hash during and after that run.
C1_DedupIdempotence ==
    \A j \in 1..Len(allFiles) :
        (Deduped(j) /\ IngestedOnceBefore(disk[allFiles[j]])) =>
            /\ allFiles[j] \notin PendingPaths
            /\ allFiles[j] \notin QueuePaths
            /\ Cardinality(DocsWithHash(store, disk[allFiles[j]])) = 1

\* The part of C1 the code keeps: the file is skipped, not queued.
C1_SkippedNotQueued ==
    \A j \in 1..Len(allFiles) :
        (Deduped(j) /\ IngestedOnceBefore(disk[allFiles[j]])) =>
            /\ allFiles[j] \notin PendingPaths
            /\ allFiles[j] \notin QueuePaths

\* C2: no two persisted records carry the same content hash.
C2_NoDuplicateHashes ==
    \A d1, d2 \in DOMAIN store :
        d1 # d2 => store[d1].hash # store[d2].hash

\* C2 as amended: two persisted records carry the same content hash only if
\* both were written by units of the same window of the same batch.
C2_DuplicatesOnlyWithinWindow ==
    \A d1, d2 \in DOMAIN store :
        (d1 # d2 /\ store[d1].hash = store[d2].hash) =>
            /\ d1 \in DOMAIN origin /\ d2 \in DOMAIN origin
            /\ origin[d1][1] = origin[d2][1]
            /\ WindowOf(origin[d1][3]) = WindowOf(origin[d2][3])

\* Witness of C2 (amended): two units of one batch with the same content, in
\* different windows, have both ended and the store holds that content once.
C2_Witness ==
    \E u, v \in 1..Len(unit) :
        /\ WindowOf(u) < WindowOf(v)
        /\ uploadQueue[u].hash = uploadQueue[v].hash
        /\ unit[u].outcome = "written"
        /\ unit[v].outcome = "skipped"
        /\ Cardinality(DocsWithHash(store, uploadQueue[u].hash)) = 1

\* The lexicographically maximal title of a collection.
IsMaxTitle(s, t) ==
    /\ \E d \in DOMAIN s : s[d].title = t
    /\ \A d \in DOMAIN s : s[d].title = t \/ LexLess(s[d].title, t)
SuffixRange == (0..12) \cup (9998..10004)

\* C3: the first identifier of a batch has suffix M+1 when the maximal title
\* of the store at batch start is IMG-<M>, and suffix 0 when the store is
\* empty or its maximal title is no IMG- title.
C3_MonotonicSequencing ==
    uploadQueue # << >> =>
        /\ DOMAIN storeAtStart = {} => uploadQueue[1].id = MakeId(0)
        /\ \A M \in SuffixRange :
               IsMaxTitle(storeAtStart, MakeId(M)) =>
                   uploadQueue[1].id = MakeId(M + 1)
        /\ IsMaxTitle(storeAtStart, LEGACY) => uploadQueue[1].id = MakeId(0)

\* Witness of C3: a batch that started on a store whose maximal title an
\* earlier batch wrote got the next suffix as its first identifier.
C3_Witness ==
    /\ uploadQueue # << >>
    /\ \E M \in SuffixRange :
           /\ IsMaxTitle(storeAtStart, MakeId(M))
           /\ MakeId(M) \in DOMAIN origin
           /\ uploadQueue[1].id = MakeId(M + 1)

Survives(p) == DocsWithHash(storeAtStart, disk[p]) = {}
SuffixOfId(id) == ParseInt(SubSeq(id, 5, Len(id)))

\* C4: the survivors of dedup, in the lexicographic order of their paths,
\* get the identifiers seed, seed+1, ...: the k-th (0-indexed) gets seed+k,
\* and the identifiers are pairwise distinct and strictly increasing.
C4_ContiguousInSortedOrder ==
    uploadQueue # << >> =>
        /\ \A j \in 1..(Len(allFiles) - 1) : LexLess(allFiles[j], allFiles[j + 1])
        /\ [u \in 1..Len(uploadQueue) |-> uploadQueue[u].filePath]
               = SelectSeq(allFiles, Survives)
        /\ \A u \in 1..Len(uploadQueue) :
               /\ uploadQueue[u].id = MakeId(counter + (u - 1))
               /\ StartsWith(uploadQueue[u].id, IMG)
               /\ SuffixOfId(uploadQueue[u].id) = SuffixOfId(uploadQueue[1].id) + (u - 1)
        /\ \A u, v \in 1..Len(uploadQueue) :
               u < v => /\ uploadQueue[u].id # uploadQueue[v].id
                        /\ SuffixOfId(uploadQueue[u].id) < SuffixOfId(uploadQueue[v].id)

\* Witness of C4: the store holds IMG-0007 and a/1.jpg, a/2.jpg, b/1.jpg got
\* IMG-0008, IMG-0009, IMG-0010.
C4_Witness ==
    /\ DOMAIN storeAtStart = {MakeId(7)}
    /\ Len(uploadQueue) = 3
    /\ uploadQueue[1].filePath = PA1 /\ uploadQueue[1].id = MakeId(8)
    /\ uploadQueue[2].filePath = PA2 /\ uploadQueue[2].id = MakeId(9)
    /\ uploadQueue[3].filePath = PB1 /\ uploadQueue[3].id = MakeId(10)

\* Exactly one unit of the ended batch failed, in upload or in persistence.
OneUploadOrPersistFailure ==
    /\ BatchEnded
    /\ Cardinality(FailedUnits) = 1
    /\ \A u \in FailedUnits : unit[u].outcome \in {"uploadFailed", "persistFailed"}
Persisted(u) ==
    /\ unit[u].outcome = "written"
    /\ uploadQueue[u].id \in DOMAIN store
    /\ store[uploadQueue[u].id].hash = uploadQueue[u].hash
    /\ store[uploadQueue[u].id].title = uploadQueue[u].id

\* C5: when exactly one unit of a batch fails in upload or in persistence,
\* every other unit has run to the end and has its record persisted under
\* its identifier, and failed holds exactly the failing unit's identifier.
C5_PartialFailureIsolation ==
    OneUploadOrPersistFailure =>
        /\ \A u \in 1..Len(unit) : unit[u].pc = "done"
        /\ \A u \in 1..Len(unit) : u \notin FailedUnits => Persisted(u)
        /\ \A u \in FailedUnits : failed = <<uploadQueue[u].id>>

\* C5 as amended: ... every other unit has run to the end and, unless its
\* own duplicate check skipped it, has its record persisted under its
\* identifier; failed holds exactly the failing unit's identifier.
C5_IsolationExceptSkipped ==
    OneUploadOrPersistFailure =>
        /\ \A u \in 1..Len(unit) : unit[u].pc = "done"
        /\ \A u \in 1..Len(unit) :
               u \notin FailedUnits =>
                   \/ Persisted(u)
                   \/ /\ unit[u].outcome = "skipped"
                      /\ DocsWithHash(store, uploadQueue[u].hash) # {}
        /\ \A u \in FailedUnits : failed = <<uploadQueue[u].id>>

\* Witness of C5 (amended): the first unit failed, and a sibling of its
\* window and a unit of the next window were both persisted.
C5_Witness ==
    /\ OneUploadOrPersistFailure
    /\ Len(unit) = 3
    /\ FailedUnits = {1}
    /\ Persisted(2) /\ Persisted(3)
    /\ WindowOf(1) = WindowOf(2) /\ WindowOf(2) < WindowOf(3)

\* C6: the batch error is raised only after every unit has ended, exactly
\* when failed is not empty, and lists exactly the failed units' identifiers;
\* the process exits with 1 then, and with 0 after a batch without failures.
C6_BatchError ==
    /\ (err # << >> /\ err[1] = "failures") =>
           /\ BatchEnded
           /\ \A u \in 1..Len(unit) : unit[u].pc = "done"
    /\ BatchEnded =>
           /\ \A u \in 1..Len(unit) : unit[u].pc = "done"
           /\ Len(failed) = Cardinality(FailedUnits)
           /\ Range(failed) = { uploadQueue[u].id : u \in FailedUnits }
           /\ FailedUnits # {} => err = <<"failures", failed>> /\ exitStatus = 1
           /\ FailedUnits = {} => err = << >> /\ exitStatus = 0

\* Witness of C6: a batch ended with two failed units and one success.
C6_Witness ==
    /\ BatchEnded
    /\ Cardinality(FailedUnits) = 2
    /\ \E u \in 1..Len(unit) : unit[u].outcome = "written"
    /\ exitStatus = 1

\* C7: a file that cannot be read while hashing fails alone: the other
\* candidates that are new are still queued and their units run to the end.
C7_HashFailureIsPerCandidate ==
    (pc = "exited" /\ err # << >> /\ err[1] = "io") =>
        \A j \in 1..Len(allFiles) :
            (j # k /\ Survives(allFiles[j])) =>
                \E u \in 1..Len(unit) :
                    /\ uploadQueue[u].filePath = allFiles[j]
                    /\ unit[u].pc = "done"

\* C8: a unit whose metadata extraction failed is no failed unit: it ends
\* with its record persisted, all capture fields absent, and its identifier
\* is not in failed.
C8_ExifFailureIsSoft ==
    \A u \in 1..Len(unit) :
        unit[u].outcome = "exifFailed" =>
            /\ uploadQueue[u].id \notin Range(failed)
            /\ uploadQueue[u].id \in DOMAIN store
            /\ store[uploadQueue[u].id].camera = None
            /\ store[uploadQueue[u].id].iso = None

\* C9: at most CONCURRENCY units are in flight, and a unit of a later window
\* has not started while a unit of an earlier window has not ended.
C9_WindowedConcurrency ==
    /\ Cardinality(InFlight) <= CONCURRENCY
    /\ \A u, v \in 1..Len(unit) :
           (WindowOf(u) < WindowOf(v) /\ unit[v].pc # "idle") => unit[u].pc = "done"

\* Witness of C9: a full window is in flight after an earlier window ended
\* with a failed unit.
C9_Witness ==
    /\ \E u, v \in 1..Len(unit) :
           /\ WindowOf(u) < WindowOf(v)
           /\ unit[u].outcome \in FailOutcomes
           /\ v \in InFlight
    /\ \A u \in 1..Len(unit) : unit[u].pc # "idle"

\* C10: progress counts against the survivors of dedup: every rendering has
\* total = the number of queued units and done = completed + failed, and a
\* batch that ended has rendered done = total and written the newline.
C10_ProgressReachesTotal ==
    /\ lastRender # << >> =>
           /\ lastRender[1].done = completed + Len(failed)
           /\ lastRender[1].total = Len(uploadQueue)
    /\ BatchEnded =>
           /\ lastRender # << >>
           /\ lastRender[1].done = lastRender[1].total
           /\ newlines = 1

\* The seed as a function of the collection at batch start.
ExpectedSeed(s) ==
    IF DOMAIN s = {} THEN 0
    ELSE LET t == CHOOSE x \in { s[d].title : d \in DOMAIN s } : IsMaxTitle(s, x)
         IN  IF MatchImg(t) # << >> THEN ParseInt(MatchImg(t)) + 1 ELSE 0
\* How many new files of the batch sort before path p.
Rank(p) ==
    Cardinality({ q \in Range(allFiles) : Survives(q) /\ LexLess(q, p) })

\* C11: the identifier of a queued file is a function of the set of input
\* files, their contents and the store at batch start alone (the seed of
\* that store plus the file's rank among the new files), in every state of
\* the batch, whatever units have ended or failed by then.
C11_DeterministicAssignment ==
    uploadQueue # << >> =>
        /\ QueuePaths = { p \in Range(allFiles) : Survives(p) }
        /\ \A u \in 1..Len(uploadQueue) :
               uploadQueue[u].id =
                   MakeId(ExpectedSeed(storeAtStart) + Rank(uploadQueue[u].filePath))

\* Witness of C11: in one window a later unit has failed while an earlier
\* one is still in flight, and a unit of the window before was persisted.
C11_Witness ==
    /\ Len(uploadQueue) = 3
    /\ unit[1].outcome \in FailOutcomes
    /\ unit[2].outcome = "written"
    /\ unit[3].pc = "upload"
    /\ uploadQueue[3].id = MakeId(ExpectedSeed(storeAtStart) + 2)

\* C12: no identifier assigned in a batch is the identifier of a document
\* the store held when the batch was sequenced.
C12_NoCollisionWithStore ==
    \A u \in 1..Len(uploadQueue) : uploadQueue[u].id \notin DOMAIN storeAtStart

\* C15 (step): a unit whose check is answered while another unit of the
\* batch with the same content hash has persisted its record ends there as
\* skipped: no upload is issued, no record is written, failed is unchanged.
GuardStep ==
    pc = "await" =>
        \A v \in 1..Len(unit) :
            ( /\ unit[v].pc = "check"
              /\ unit'[v].pc # "check"
              /\ \E u \in 1..Len(unit) :
                     /\ u # v
                     /\ unit[u].outcome = "written"
                     /\ uploadQueue[u].hash = uploadQueue[v].hash )
            => /\ unit'[v].pc = "done"
               /\ unit'[v].outcome = "skipped"
               /\ assets' = assets
               /\ ~unit'[v].uploaded
               /\ store' = store
               /\ failed' = failed
\* C15 (state): a skipped unit has issued no upload and is not in failed.
SkippedIsClean ==
    \A v \in 1..Len(unit) :
        unit[v].outcome = "skipped" =>
            /\ unit[v].pc = "done"
            /\ ~unit[v].uploaded
            /\ uploadQueue[v].id \notin Range(failed)
            /\ ( uploadQueue[v].id \in DOMAIN origin =>
                     origin[uploadQueue[v].id] # <<run, uploadQueue[v].filePath, v>> )

\* C15: per-run dedup guard: when two pending units have the same content
\* hash and the first has persisted its record before the second's check, the
\* second issues no upload, writes no record and is not added to failed.
C15_PerRunGuard == [](SkippedIsClean) /\ [][GuardStep]_vars

\* Witness of C15: the second of two same-content units, in a later window,
\* was skipped after the first was persisted; no asset carries its identifier.
C15_Witness ==
    \E u, v \in 1..Len(unit) :
        /\ WindowOf(u) < WindowOf(v)
        /\ uploadQueue[u].hash = uploadQueue[v].hash
        /\ unit[u].outcome = "written"
        /\ unit[v].outcome = "skipped"
        /\ uploadQueue[v].id \notin assets
        /\ uploadQueue[v].id \notin DOMAIN store
        /\ failed = << >>

\* The other half of C15: two same-content units of one window both passed
\* the guard and both persisted.
C15_BothPassed ==
    \E u, v \in 1..Len(unit) :
        /\ u # v
        /\ WindowOf(u) = WindowOf(v)
        /\ uploadQueue[u].hash = uploadQueue[v].hash
        /\ unit[u].outcome = "written"
        /\ unit[v].outcome = "written"

\* C16 (step): a step of the window loop changes the store only by writing,
\* for a unit whose upload has succeeded, the document of its identifier with
\* featured = false and the unit's hash; a unit whose upload fails leaves
\* the store as it was.
PersistStep ==
    pc = "await" =>
        /\ \A u \in 1..Len(unit) :
               (unit[u].outcome = "none" /\ unit'[u].outcome = "uploadFailed")
                   => store' = store
        /\ store' # store =>
               \E u \in 1..Len(unit) :
                   /\ unit[u].uploaded
                   /\ uploadQueue[u].id \in assets
                   /\ unit[u].outcome = "none"
                   /\ unit'[u].outcome = "written"
                   /\ DOMAIN store' = DOMAIN store \cup {uploadQueue[u].id}
                   /\ store'[uploadQueue[u].id].title = uploadQueue[u].id
                   /\ store'[uploadQueue[u].id].featured = FALSE
                   /\ store'[uploadQueue[u].id].hash = uploadQueue[u].hash
                   /\ \A d \in DOMAIN store \ {uploadQueue[u].id} :
                          store'[d] = store[d]

\* C16: upload precedes persistence.
C16_UploadPrecedesPersistence == [][PersistStep]_vars

\* Witness of C16: one unit was persisted after its upload, another failed
\* in upload and the store holds nothing under its identifier.
C16_Witness ==
    \E u, v \in 1..Len(unit) :
        /\ unit[u].outcome = "written" /\ unit[u].uploaded
        /\ store[uploadQueue[u].id].featured = FALSE
        /\ store[uploadQueue[u].id].hash = uploadQueue[u].hash
        /\ unit[v].outcome = "uploadFailed"
        /\ uploadQueue[v].id \notin DOMAIN store

\* C19: an identifier with which an earlier batch called the remote upload
\* (no reset since) is not assigned to a unit of this batch.  Stated for the
\* uploads that succeeded: when the window loop is about to start, the assets
\* are those of earlier batches, and no assigned identifier names one.
C19_IdentifierStability ==
    (pc = "loop" /\ i = 0) =>
        \A u \in 1..Len(uploadQueue) : uploadQueue[u].id \notin assets

\* C13: records and remote assets are deleted only after the operator has
\* answered RESET at a first prompt and DELETE ALL at a second one.
C13_DoubleConfirmation ==
    pc \in {"resetCommit", "cloudList", "cloudDelete"}
        => confirmations = <<"RESET", "DELETE ALL">>

\* The reset is past its confirmation and has not returned.
Resetting == pc \in {"resetCommit", "cloudList", "cloudDelete"}
\* One step of the reset: the remote assets are touched only once the store
\* is empty, a deletion removes exactly the listed page, which is not empty
\* and no larger than a page, and the reset returns to the menu only with the
\* store and the namespace both empty.
ResetProgress ==
    /\ assets' # assets =>
          /\ pc = "cloudDelete"
          /\ DOMAIN store = {}
          /\ result.resources # {}
          /\ Cardinality(result.resources) <= MAX_RESULTS
          /\ result.resources \subseteq assets
          /\ assets' = assets \ result.resources
    /\ (pc \in {"cloudList", "cloudDelete"} /\ pc' = "menu") =>
          /\ DOMAIN store' = {}
          /\ assets' = {}

\* C14: a confirmed reset deletes every record, then the remote assets page
\* by page; it ends (here: returns, or stops on a rejected call), and when it
\* returns no record and no asset is left.
C14_ResetCompleteness ==
    /\ [](pc \in {"cloudList", "cloudDelete"} => DOMAIN store = {})
    /\ [][Resetting => ResetProgress]_vars
    /\ (Resetting ~> ~Resetting)

\* Witness of C14: the reset is in its second round of the loop, the cursor
\* of a full first page in hand, about to delete the last asset.
C14_Witness ==
    /\ pc = "cloudDelete"
    /\ nextCursor # None
    /\ Cardinality(assets) = 1
    /\ result.resources = assets
    /\ result.next_cursor = None
    /\ DOMAIN store = {}

\* Witness: a full last page came with a cursor, every asset is deleted,
\* and the listing that ends the loop on an empty page is about to be made.
C14_FullLastPage ==
    /\ pc = "cloudList"
    /\ nextCursor # None
    /\ Cardinality(result.resources) = MAX_RESULTS
    /\ assets = {}
    /\ DOMAIN store = {}

\* Two documents agree on every field other than featured.
SameButFeatured(a, b) == [a EXCEPT !.featured = FALSE] = [b EXCEPT !.featured = FALSE]
FrameStep ==
    /\ \A d \in DOMAIN store :
          /\ d \notin DOMAIN store' => pc = "resetCommit"
          /\ d \in DOMAIN store' => SameButFeatured(store[d], store'[d])
    /\ pc = "menu" => DOMAIN store' \subseteq DOMAIN store

\* C17: a persisted record changes in no field other than featured and is
\* removed only by the reset; the featured operations create no record.
C17_RecordFrame == [][FrameStep]_vars

\* The units that have ended.
Finished == { u \in 1..Len(unit) : unit[u].pc = "done" }
InLoop == pc \in {"loop", "await"}
LoopEnded == pc = "loop" /\ i >= Len(uploadQueue)
OneOutcomeEach ==
    /\ \A u \in 1..Len(unit) : unit[u].pc = "done" <=> unit[u].outcome # "none"
    /\ \A u \in 1..Len(unit) :
          unit[u].outcome \in FailOutcomes <=> uploadQueue[u].id \in Range(failed)
    /\ Len(failed) = Cardinality(FailedUnits)
    /\ completed = Cardinality(Finished \ FailedUnits)

\* C18: during the window loop completed + failed.length is the number of
\* units that have ended, each with one outcome; the loop ends, and then the
\* sum is the number of pending units.
C18_RunToCompletion ==
    /\ [](InLoop => /\ OneOutcomeEach
                    /\ completed + Len(failed) = Cardinality(Finished))
    /\ [](LoopEnded => /\ Finished = 1..Len(pending)
                       /\ completed + Len(failed) = Len(pending))
    /\ ((pc = "loop" /\ i = 0) ~> LoopEnded)

\* Witness of C18: the loop has ended over two windows with a success and a
\* failure among its units.
C18_Witness ==
    /\ LoopEnded
    /\ Len(pending) > CONCURRENCY
    /\ completed > 0
    /\ Len(failed) > 0

====
